---- MODULE Spec2Model ----
(***************************************************************************)
(* A model of the text-score crate (src/src/commons.rs, src/src/rouge.rs): *)
(* the metric primitives precision, recall and f1, the n-gram builder      *)
(* create_ngrams, the overlap scorer ngram_based_score and the entry point *)
(* rouge_n.  Every function of the crate is pure; the state of the model   *)
(* is the build profile, the pending call and what the call produced.      *)
(*                                                                         *)
(* Fixed-width integers (u32, usize) are sequences of 16-bit limbs, least  *)
(* significant first, so that additions and subtractions carry, wrap and   *)
(* overflow at the width the code has.  f32 values are records             *)
(* [cls, m, e]: a finite non-negative value is m * 2^e with m = 0 or       *)
(* 2^23 <= m < 2^24, and every operation rounds to nearest, ties to even.  *)
(* Negative values, subnormals and exponent overflow cannot arise from     *)
(* quotients of counts and are left out.                                   *)
(***************************************************************************)
EXTENDS Integers, Sequences, FiniteSets, TLC

\* ---------------------------------------------------------------- bounds
\* Longest text (in characters) handed to rouge_n.
MaxTextLen == 4
\* Largest n handed to rouge_n and create_ngrams.
MaxN == 3
\* Longest token sequence handed to create_ngrams.
MaxTokens == 4
\* Largest count of one n-gram in a multiset handed to ngram_based_score,
\* and the spread of the integer samples handed to precision and recall.
MaxCount == 2

\* ------------------------------------------------- widths of the code's types
U32Bits == 32
\* usize of a 64-bit target
UsizeBits == 64
\* significand precision of f32
F32MantBits == 24

\* ------------------------------------------------------ fixed-width integers
LimbBits == U32Bits \div 2
LimbBase == 2^LimbBits
U32Limbs == U32Bits \div LimbBits
UsizeLimbs == UsizeBits \div LimbBits

RECURSIVE NatToLimbs(_, _)
NatToLimbs(x, k) ==
    IF k = 0 THEN <<>> ELSE <<x % LimbBase>> \o NatToLimbs(x \div LimbBase, k - 1)

RECURSIVE LimbAddC(_, _, _)
\* a + b + carry at the width of a: the wrapped sum and the carry out
LimbAddC(a, b, carry) ==
    IF a = <<>> THEN [val |-> <<>>, overflow |-> carry = 1]
    ELSE LET s    == a[1] + b[1] + carry
             rest == LimbAddC(Tail(a), Tail(b), s \div LimbBase)
         IN  [val |-> <<s % LimbBase>> \o rest.val, overflow |-> rest.overflow]

RECURSIVE LimbSubB(_, _, _)
\* a - b - borrow at the width of a: the wrapped difference and the borrow out
LimbSubB(a, b, borrow) ==
    IF a = <<>> THEN [val |-> <<>>, overflow |-> borrow = 1]
    ELSE LET d    == a[1] - b[1] - borrow
             rest == LimbSubB(Tail(a), Tail(b), IF d < 0 THEN 1 ELSE 0)
         IN  [val |-> <<d % LimbBase>> \o rest.val, overflow |-> rest.overflow]

RECURSIVE LimbLess(_, _)
LimbLess(a, b) ==
    IF a = <<>> THEN FALSE
    ELSE LET n == Len(a)
         IN  \/ a[n] < b[n]
             \/ a[n] = b[n] /\ LimbLess(SubSeq(a, 1, n - 1), SubSeq(b, 1, n - 1))

U32(x) == NatToLimbs(x, U32Limbs)
Usize(x) == NatToLimbs(x, UsizeLimbs)
U32Zero == U32(0)
U32One == U32(1)
U32MAX == [i \in 1..U32Limbs |-> LimbBase - 1]

\* An integer operation of the code: under overflow checks (a debug build) an
\* overflow panics, without them (a release build) the result wraps.
Val(v) == [kind |-> "Ok", val |-> v]
Panic(msg) == [kind |-> "Panic", msg |-> msg]

CheckedAdd(a, b, overflow_checks) ==
    LET s == LimbAddC(a, b, 0)
    IN  IF s.overflow /\ overflow_checks
        THEN Panic("attempt to add with overflow")
        ELSE Val(s.val)

CheckedSub(a, b, overflow_checks) ==
    LET d == LimbSubB(a, b, 0)
    IN  IF d.overflow /\ overflow_checks
        THEN Panic("attempt to subtract with overflow")
        ELSE Val(d.val)

\* a slip of min: the larger of the two
U32Min_larger(a, b) == IF LimbLess(a, b) THEN b ELSE a

U32Min(a, b) == IF LimbLess(b, a) THEN b ELSE a
U32Max(a, b) == IF LimbLess(a, b) THEN b ELSE a

\* ------------------------------------------------------------------- f32
MantLo == 2^(F32MantBits - 1)
MantHi == 2^F32MantBits

F32NaN == [cls |-> "nan", m |-> 0, e |-> 0]
F32Inf == [cls |-> "inf", m |-> 0, e |-> 0]
F32Fin(m, e) == [cls |-> "fin", m |-> m, e |-> e]
F32Zero == F32Fin(0, 0)
F32One == F32Fin(MantLo, 1 - F32MantBits)
F32Two == F32Fin(MantLo, 2 - F32MantBits)

IsZero(x) == x.cls = "fin" /\ x.m = 0

\* m * 2^e plus rem/unit units of the last place (0 <= rem < unit), rounded to
\* nearest, ties to even.
F32Round(m, rem, unit, e) ==
    LET up == \/ 2 * rem > unit
              \/ 2 * rem = unit /\ m % 2 = 1
        m2 == IF up THEN m + 1 ELSE m
    IN  IF m2 = MantHi THEN F32Fin(MantLo, e + 1) ELSE F32Fin(m2, e)

RECURSIVE F32Norm(_, _)
\* the exact value m * 2^e, 0 < m < 2^24, with its significand normalised
F32Norm(m, e) == IF m >= MantLo THEN F32Fin(m, e) ELSE F32Norm(2 * m, e - 1)

RECURSIVE BitLen(_)
BitLen(x) == IF x = 0 THEN 0 ELSE 1 + BitLen(x \div 2)

\* `x as f32` for a u32 x
F32FromU32(u) ==
    LET lo == u[1]
        hi == u[2]
        s  == BitLen(hi) - (F32MantBits - LimbBits)
    IN  IF hi = 0 /\ lo = 0 THEN F32Zero
        ELSE IF s <= 0 THEN F32Norm(hi * LimbBase + lo, 0)
        ELSE F32Round(hi * 2^(LimbBits - s) + lo \div 2^s, lo % 2^s, 2^s, s)

RECURSIVE LongDiv(_, _, _, _)
\* k more quotient bits of a division by den, from quotient q and remainder r
LongDiv(q, r, den, k) ==
    IF k = 0 THEN [q |-> q, r |-> r]
    ELSE IF 2 * r >= den THEN LongDiv(2 * q + 1, 2 * r - den, den, k - 1)
    ELSE LongDiv(2 * q, 2 * r, den, k - 1)

\* a / b
F32Div(a, b) ==
    IF a.cls = "nan" \/ b.cls = "nan" THEN F32NaN
    ELSE IF a.cls = "inf" THEN (IF b.cls = "inf" THEN F32NaN ELSE F32Inf)
    ELSE IF b.cls = "inf" THEN F32Zero
    ELSE IF IsZero(b) THEN (IF IsZero(a) THEN F32NaN ELSE F32Inf)
    ELSE IF IsZero(a) THEN F32Zero
    ELSE LET k == IF a.m >= b.m THEN F32MantBits - 1 ELSE F32MantBits
             d == LongDiv(a.m \div b.m, a.m % b.m, b.m, k)
         IN  F32Round(d.q, d.r, b.m, a.e - b.e - k)

\* a * b
F32Mul(a, b) ==
    IF a.cls = "nan" \/ b.cls = "nan" THEN F32NaN
    ELSE IF a.cls = "inf" \/ b.cls = "inf"
         THEN (IF IsZero(a) \/ IsZero(b) THEN F32NaN ELSE F32Inf)
    ELSE IF IsZero(a) \/ IsZero(b) THEN F32Zero
    ELSE LET half == 2^(F32MantBits \div 2)
             ah   == a.m \div half
             al   == a.m % half
             bh   == b.m \div half
             bl   == b.m % half
             mid  == ah * bl + al * bh
             low  == (mid % half) * half + al * bl
             phi  == ah * bh + mid \div half + low \div MantHi
             plo  == low % MantHi
             e    == a.e + b.e + F32MantBits
         IN  IF phi >= MantLo THEN F32Round(phi, plo, MantHi, e)
             ELSE F32Round(2 * phi + plo \div MantLo, plo % MantLo, MantLo, e - 1)

\* a + b, both non-negative
F32Add(a, b) ==
    IF a.cls = "nan" \/ b.cls = "nan" THEN F32NaN
    ELSE IF a.cls = "inf" \/ b.cls = "inf" THEN F32Inf
    ELSE IF IsZero(a) THEN b
    ELSE IF IsZero(b) THEN a
    ELSE LET x == IF a.e >= b.e THEN a ELSE b
             y == IF a.e >= b.e THEN b ELSE a
             d == x.e - y.e
         IN  IF d > F32MantBits + 1 THEN x
             ELSE LET unit == 2^d
                      sum  == x.m + y.m \div unit
                      rem  == y.m % unit
                  IN  IF sum < MantHi THEN F32Round(sum, rem, unit, x.e)
                      ELSE F32Round(sum \div 2, (sum % 2) * unit + rem,
                                    2 * unit, x.e + 1)

\* a <= b for two non-negative numbers (false when either is NaN)
F32Le(a, b) ==
    /\ a.cls # "nan" /\ b.cls # "nan"
    /\ \/ b.cls = "inf"
       \/ IsZero(a)
       \/ /\ a.cls = "fin" /\ ~IsZero(b)
          /\ \/ a.e < b.e
             \/ a.e = b.e /\ a.m <= b.m

\* ------------------------------------------------------ src/src/commons.rs
Score(p, r, f) == [precision |-> p, recall |-> r, f1 |-> f]

\* true_pos + false_pos in u32, then the f32 quotient
precision(true_pos, false_pos, overflow_checks) ==
    LET sum == CheckedAdd(true_pos, false_pos, overflow_checks)
    IN  IF sum.kind = "Panic" THEN sum
        ELSE Val(F32Div(F32FromU32(true_pos), F32FromU32(sum.val)))

recall(true_pos, false_neg, overflow_checks) ==
    LET sum == CheckedAdd(true_pos, false_neg, overflow_checks)
    IN  IF sum.kind = "Panic" THEN sum
        ELSE Val(F32Div(F32FromU32(true_pos), F32FromU32(sum.val)))

\* 2.0*(precision*recall)/(precision+recall)
f1(p, r) == F32Div(F32Mul(F32Two, F32Mul(p, r)), F32Add(p, r))

\* -------------------------------------------------------- src/src/rouge.rs
\* A HashMap<Vec<&str>, u32> is a function from its keys to their counts; the
\* counts of the model stay far below 2^31 and are kept as naturals.
EmptyMap == << >>

\* *ngrams.entry(ngram).or_insert(0) += 1
entry_increment(ngrams, ngram) ==
    IF ngram \in DOMAIN ngrams
    THEN [ngrams EXCEPT ![ngram] = @ + 1]
    ELSE ngrams @@ (ngram :> 1)

\* a slip of window_count: the range ends at tokens.len() - n
window_count_short(len, n, overflow_checks) ==
    CheckedSub(Usize(len), Usize(n), overflow_checks)

\* tokens.len() - n + 1 in usize, the end of the range 0..(tokens.len() - n + 1)
window_count(len, n, overflow_checks) ==
    LET d == CheckedSub(Usize(len), Usize(n), overflow_checks)
    IN  IF d.kind = "Panic" THEN d
        ELSE CheckedAdd(d.val, Usize(1), overflow_checks)

RECURSIVE ngram_loop(_, _, _, _, _)
\* the iterations i, i+1, ... of the loop, up to the end of the range
ngram_loop(tokens, n, end, i, ngrams) ==
    IF ~LimbLess(Usize(i), end) THEN Val(ngrams)
    ELSE IF i + n > Len(tokens)
         THEN Panic("range end index out of range for slice")
    ELSE ngram_loop(tokens, n, end, i + 1,
                    entry_increment(ngrams, SubSeq(tokens, i + 1, i + n)))

create_ngrams(tokens, n, overflow_checks) ==
    LET end == window_count(Len(tokens), n, overflow_checks)
    IN  IF end.kind = "Panic" THEN end
        ELSE ngram_loop(tokens, n, end.val, 0, EmptyMap)

RECURSIVE values_sum(_, _, _, _)
\* map.values().map(|&v| v).sum() in u32, the values met in the map's
\* iteration order
values_sum(map, order, acc, overflow_checks) ==
    IF order = <<>> THEN Val(acc)
    ELSE LET s == CheckedAdd(acc, U32(map[Head(order)]), overflow_checks)
         IN  IF s.kind = "Panic" THEN s
             ELSE values_sum(map, Tail(order), s.val, overflow_checks)

\* a slip of clipped_count: a shared n-gram is credited once, however often
\* it occurs
clipped_count_distinct(predicted_ngrams, ngram, target_cnt) ==
    IF ngram \in DOMAIN predicted_ngrams /\ predicted_ngrams[ngram] >= 1
          /\ target_cnt >= 1
    THEN U32One ELSE U32Zero

\* a slip of clipped_count: a shared n-gram is credited with its reference
\* count, not clipped by the candidate's
clipped_count_unclipped(predicted_ngrams, ngram, target_cnt) ==
    IF ngram \in DOMAIN predicted_ngrams THEN U32(target_cnt) ELSE U32Zero

\* min(target_cnt, predicted_ngrams.get(ngram).unwrap_or(&0))
clipped_count(predicted_ngrams, ngram, target_cnt) ==
    U32Min(U32(target_cnt),
           IF ngram \in DOMAIN predicted_ngrams
           THEN U32(predicted_ngrams[ngram]) ELSE U32Zero)

\* a slip of intersection_step: = in place of +=
intersection_step_assign(count, predicted_ngrams, ngram, target_cnt, overflow_checks) ==
    Val(clipped_count(predicted_ngrams, ngram, target_cnt))

\* intersection_ngrams_count += ...
intersection_step(count, predicted_ngrams, ngram, target_cnt, overflow_checks) ==
    CheckedAdd(count, clipped_count(predicted_ngrams, ngram, target_cnt),
               overflow_checks)

RECURSIVE intersection_loop(_, _, _, _, _)
\* for (ngram, target_cnt) in target_ngrams.iter()
intersection_loop(predicted_ngrams, target_ngrams, order, count, overflow_checks) ==
    IF order = <<>> THEN Val(count)
    ELSE LET ngram == Head(order)
             s == intersection_step(count, predicted_ngrams, ngram,
                                    target_ngrams[ngram], overflow_checks)
         IN  IF s.kind = "Panic" THEN s
             ELSE intersection_loop(predicted_ngrams, target_ngrams, Tail(order),
                                    s.val, overflow_checks)

\* x as f32 / max(total, 1) as f32
ratio(count, total) == F32Div(F32FromU32(count), F32FromU32(U32Max(total, U32One)))

\* predicted_order and target_order are the orders in which the two HashMaps
\* hand out their entries.
ngram_based_score(predicted_ngrams, target_ngrams, predicted_order, target_order, overflow_checks) ==
    LET target_ngrams_count ==
            values_sum(target_ngrams, target_order, U32Zero, overflow_checks)
        prediction_ngrams_count ==
            values_sum(predicted_ngrams, predicted_order, U32Zero, overflow_checks)
        intersection_ngrams_count ==
            intersection_loop(predicted_ngrams, target_ngrams, target_order,
                              U32Zero, overflow_checks)
    IN  IF target_ngrams_count.kind = "Panic" THEN target_ngrams_count
        ELSE IF prediction_ngrams_count.kind = "Panic" THEN prediction_ngrams_count
        ELSE IF intersection_ngrams_count.kind = "Panic" THEN intersection_ngrams_count
        ELSE LET p == ratio(intersection_ngrams_count.val, prediction_ngrams_count.val)
                 r == ratio(intersection_ngrams_count.val, target_ngrams_count.val)
             IN  Val(Score(p, r, f1(p, r)))

\* A text is a sequence of characters, a token a non-empty sequence of
\* characters that are not whitespace.
IsWhitespace(c) == c \in {" ", "\t", "\n", "\r"}

RECURSIVE split_from(_, _, _, _)
split_from(text, i, word, words) ==
    LET closed == IF word = <<>> THEN words ELSE Append(words, word)
    IN  IF i > Len(text) THEN closed
        ELSE IF IsWhitespace(text[i]) THEN split_from(text, i + 1, <<>>, closed)
        ELSE split_from(text, i + 1, Append(word, text[i]), words)

\* text.split_whitespace().collect()
split_whitespace(text) == split_from(text, 1, <<>>, <<>>)

Err(msg) == [kind |-> "Err", msg |-> msg]

\* a slip of invalid_n: a test no usize fails
invalid_n_never(n) == n < 0

\* if n < 1
invalid_n(n) == n < 1

rouge_n(input, reference, n, input_order, reference_order, overflow_checks) ==
    IF invalid_n(n) THEN Err("n should be >= 1")
    ELSE LET input_words      == split_whitespace(input)
             reference_words  == split_whitespace(reference)
             input_ngrams     == create_ngrams(input_words, n, overflow_checks)
             reference_ngrams == create_ngrams(reference_words, n, overflow_checks)
         IN  IF input_ngrams.kind = "Panic" THEN input_ngrams
             ELSE IF reference_ngrams.kind = "Panic" THEN reference_ngrams
             ELSE ngram_based_score(input_ngrams.val, reference_ngrams.val,
                                    input_order, reference_order, overflow_checks)

\* ------------------------------------------------------------ the inputs
RECURSIVE Orders(_)
\* every order in which a HashMap with the keys S may hand them out
Orders(S) ==
    IF S = {} THEN {<<>>}
    ELSE UNION {{<<k>> \o rest : rest \in Orders(S \ {k})} : k \in S}

SeqsUpTo(S, max) == UNION {[1..len -> S] : len \in 0..max}

Chars == {" ", "a"}
Texts == SeqsUpTo(Chars, MaxTextLen)

\* the texts of test_rouge1 (src/tests/test_rouge.rs), a word per character:
\* t "this", i "is", d "identical", c "case.", w "wow", x "it", h "what",
\* z "is.", r "really"
TestTexts ==
    { << <<"t", " ", "i", " ", "d", " ", "c">>,
         <<"t", " ", "i", " ", "d", " ", "c">> >>,
      << <<"t", " ", "i", " ", "d", " ", "c">>,
         <<"w", " ", "t", " ", "i", " ", "d", " ", "c">> >>,
      << <<"x", " ", "i", " ", "h", " ", "x", " ", "z">>,
         <<"x", " ", "i", " ", "h", " ", "x", " ", "z">> >>,
      << <<"x", " ", "i", " ", "h", " ", "x", " ", "z">>,
         <<"x", " ", "i", " ", "r", " ", "h", " ", "x", " ", "z">> >> }

TextPairs == (Texts \X Texts) \cup TestTexts

Words == {<<"a">>, <<"a", "a">>}
TokenSeqs == SeqsUpTo(Words, MaxTokens)

ScoreKeys == {<< <<"a">> >>, << <<"a", "a">> >>, << <<"a">>, <<"a">> >>}
Multisets == UNION {[keys -> 1..MaxCount] : keys \in SUBSET ScoreKeys}

U32Samples ==
    {U32(k) : k \in 0..MaxCount}
        \cup {LimbSubB(U32MAX, U32(k), 0).val : k \in 0..MaxCount}
        \cup {U32(MantHi + k) : k \in 0..MaxCount}
        \cup {U32(5 * k) : k \in 1..2}

F32Samples ==
    {F32Div(F32FromU32(U32(a)), F32FromU32(U32(b))) :
        a \in 0..MaxCount, b \in 0..(MaxCount + 1)}

\* the keys of the multiset create_ngrams builds from a text, if it builds one
NgramKeys(text, n, overflow_checks) ==
    LET ngrams == create_ngrams(split_whitespace(text), n, overflow_checks)
    IN  IF ngrams.kind = "Ok" THEN DOMAIN ngrams.val ELSE {}

\* ------------------------------------------------------ the state machine
VARIABLES
    overflow_checks,  \* the build profile: TRUE debug, FALSE release
    pc,               \* "idle" or "returned"
    call,             \* the function called and its arguments
    ret               \* what the call produced

vars == <<overflow_checks, pc, call, ret>>

Call(op, args) == [op |-> op, args |-> args]

Init ==
    /\ overflow_checks \in BOOLEAN
    /\ pc = "idle"
    /\ call = Call("none", <<>>)
    /\ ret = [kind |-> "None"]

CallPrecision ==
    /\ pc = "idle"
    /\ \E tp \in U32Samples, fp \in U32Samples :
        /\ call' = Call("precision", <<tp, fp>>)
        /\ ret' = precision(tp, fp, overflow_checks)
    /\ pc' = "returned"
    /\ UNCHANGED overflow_checks

CallRecall ==
    /\ pc = "idle"
    /\ \E tp \in U32Samples, fn \in U32Samples :
        /\ call' = Call("recall", <<tp, fn>>)
        /\ ret' = recall(tp, fn, overflow_checks)
    /\ pc' = "returned"
    /\ UNCHANGED overflow_checks

CallF1 ==
    /\ pc = "idle"
    /\ \E p \in F32Samples, r \in F32Samples :
        /\ call' = Call("f1", <<p, r>>)
        /\ ret' = Val(f1(p, r))
    /\ pc' = "returned"
    /\ UNCHANGED overflow_checks

CallCreateNgrams ==
    /\ pc = "idle"
    /\ \E tokens \in TokenSeqs, n \in 0..MaxN :
        /\ call' = Call("create_ngrams", <<tokens, n>>)
        /\ ret' = create_ngrams(tokens, n, overflow_checks)
    /\ pc' = "returned"
    /\ UNCHANGED overflow_checks

CallNgramBasedScore ==
    /\ pc = "idle"
    /\ \E predicted \in Multisets, target \in Multisets :
        \E predicted_order \in Orders(DOMAIN predicted),
           target_order \in Orders(DOMAIN target) :
            /\ call' = Call("ngram_based_score", <<predicted, target>>)
            /\ ret' = ngram_based_score(predicted, target, predicted_order,
                                        target_order, overflow_checks)
    /\ pc' = "returned"
    /\ UNCHANGED overflow_checks

CallRougeN ==
    /\ pc = "idle"
    /\ \E texts \in TextPairs, n \in 0..MaxN :
        \E input_order \in Orders(NgramKeys(texts[1], n, overflow_checks)),
           reference_order \in Orders(NgramKeys(texts[2], n, overflow_checks)) :
            /\ call' = Call("rouge_n", <<texts[1], texts[2], n>>)
            /\ ret' = rouge_n(texts[1], texts[2], n, input_order, reference_order,
                              overflow_checks)
    /\ pc' = "returned"
    /\ UNCHANGED overflow_checks

Return ==
    /\ pc = "returned"
    /\ pc' = "idle"
    /\ call' = Call("none", <<>>)
    /\ ret' = [kind |-> "None"]
    /\ UNCHANGED overflow_checks

Next ==
    \/ CallPrecision
    \/ CallRecall
    \/ CallF1
    \/ CallCreateNgrams
    \/ CallNgramBasedScore
    \/ CallRougeN
    \/ Return

Spec == Init /\ [][Next]_vars

TypeOK ==
    /\ overflow_checks \in BOOLEAN
    /\ pc \in {"idle", "returned"}
    /\ ret.kind \in {"None", "Ok", "Err", "Panic"}

\* ---------------------------------------------------- what the claims need
Returned(op) == pc = "returned" /\ call.op = op

RECURSIVE SumOver(_, _)
\* the sum of the counts of a multiset over the keys S
SumOver(map, S) ==
    IF S = {} THEN 0
    ELSE LET k == CHOOSE k \in S : TRUE IN map[k] + SumOver(map, S \ {k})

Total(map) == SumOver(map, DOMAIN map)

CountOrZero(map, k) == IF k \in DOMAIN map THEN map[k] ELSE 0

\* sum over the distinct n-grams of the reference of min(reference count,
\* candidate count or 0)
Overlap(candidate, reference) ==
    LET clipped == [k \in DOMAIN reference |->
                       IF reference[k] <= CountOrZero(candidate, k)
                       THEN reference[k] ELSE CountOrZero(candidate, k)]
    IN  Total(clipped)

\* x / max(y, 1) as the f32 quotient of two small naturals
Quotient(x, y) == F32Div(F32FromU32(U32(x)), F32FromU32(U32(IF y < 1 THEN 1 ELSE y)))

\* the n-grams of a token sequence: its windows of n consecutive tokens
Windows(tokens, n) ==
    {SubSeq(tokens, i + 1, i + n) : i \in 0..(Len(tokens) - n)}

TokenCount(text) == Len(split_whitespace(text))

AllOnes == Score(F32One, F32One, F32One)
AllZeros == Score(F32Zero, F32Zero, F32Zero)

\* C1: for n >= 1, when the candidate or the reference has fewer than n
\* tokens, rouge_n returns Ok(Score{0.0, 0.0, 0.0}): no error, no abort.
ShortTextScoresZero ==
    Returned("rouge_n") =>
        LET input == call.args[1]
            reference == call.args[2]
            n == call.args[3]
        IN  (n >= 1 /\ (TokenCount(input) < n \/ TokenCount(reference) < n))
                => ret = Val(AllZeros)

\* C2: rouge_n(candidate, reference, 0) fails with the error "n should be
\* >= 1" whatever the two texts are, and produces no Score.
ZeroNRejected ==
    (Returned("rouge_n") /\ call.args[3] = 0) => ret = Err("n should be >= 1")

ZeroNRejectedWitness ==
    /\ Returned("rouge_n")
    /\ call.args[3] = 0
    /\ TokenCount(call.args[1]) >= 1
    /\ TokenCount(call.args[2]) = 0
    /\ ret.kind = "Err"

\* C3: rouge_n(text, text, n) with 1 <= n <= token_count(text) returns
\* Score{1.0, 1.0, 1.0} exactly, repeated tokens or not.
IdenticalTextsScoreOne ==
    Returned("rouge_n") =>
        LET input == call.args[1]
            reference == call.args[2]
            n == call.args[3]
        IN  (input = reference /\ 1 <= n /\ n <= TokenCount(input))
                => ret = Val(AllOnes)

IdenticalTextsScoreOneWitness ==
    /\ Returned("rouge_n")
    /\ call.args[1] = call.args[2]
    /\ call.args[3] >= 1
    /\ LET tokens == split_whitespace(call.args[1])
       IN  /\ call.args[3] <= Len(tokens)
           /\ Cardinality(Windows(tokens, call.args[3])) < Len(tokens) - call.args[3] + 1
    /\ ret = Val(AllOnes)

\* C4: for n >= 1 and two texts of at least n tokens each that share no
\* n-gram, rouge_n returns a Score whose f1 is the number 0.0, not NaN.
NoOverlapF1Zero ==
    Returned("rouge_n") =>
        LET input == split_whitespace(call.args[1])
            reference == split_whitespace(call.args[2])
            n == call.args[3]
        IN  (/\ n >= 1 /\ Len(input) >= n /\ Len(reference) >= n
             /\ Windows(input, n) \cap Windows(reference, n) = {})
                => (ret.kind = "Ok" /\ ret.val.f1 = F32Zero)

\* C5: ngram_based_score returns precision = overlap / max(total candidate
\* count, 1) and recall = overlap / max(total reference count, 1), where
\* overlap is the sum over the reference's distinct n-grams of min(reference
\* count, candidate count or 0); "it is what it is." against "it is really
\* what it is." with n = 1 gives precision 1 and recall 5/6.
OverlapIsClippedSum ==
    /\ Returned("ngram_based_score") =>
        LET candidate == call.args[1]
            reference == call.args[2]
            overlap == Overlap(candidate, reference)
        IN  /\ ret.kind = "Ok"
            /\ ret.val.precision = Quotient(overlap, Total(candidate))
            /\ ret.val.recall = Quotient(overlap, Total(reference))
    /\ (/\ Returned("rouge_n")
        /\ TokenCount(call.args[1]) = 5
        /\ TokenCount(call.args[2]) = 6
        /\ call.args[3] = 1)
        => (/\ ret.kind = "Ok"
            /\ ret.val.precision = F32One
            /\ ret.val.recall = Quotient(5, 6))

OverlapIsClippedSumWitness ==
    /\ Returned("ngram_based_score")
    /\ \E k \in DOMAIN call.args[2] :
        /\ k \in DOMAIN call.args[1]
        /\ call.args[1][k] < call.args[2][k]
    /\ \E k \in DOMAIN call.args[2] :
        /\ k \in DOMAIN call.args[1]
        /\ call.args[1][k] > call.args[2][k]
    /\ \E k \in DOMAIN call.args[1] : k \notin DOMAIN call.args[2]
    /\ ret.kind = "Ok"

\* C6: for 1 <= n <= token_count, create_ngrams returns a multiset whose keys
\* are sequences of exactly n consecutive tokens, where the count of a key is
\* the number of window starts i in 0..token_count-n with tokens[i..i+n]
\* equal to the key, and whose counts sum to token_count - n + 1.
NgramsCountWindows ==
    Returned("create_ngrams") =>
        LET tokens == call.args[1]
            n == call.args[2]
        IN  (1 <= n /\ n <= Len(tokens)) =>
                /\ ret.kind = "Ok"
                /\ \A key \in DOMAIN ret.val :
                    /\ Len(key) = n
                    /\ ret.val[key] =
                         Cardinality({i \in 0..(Len(tokens) - n) :
                                         SubSeq(tokens, i + 1, i + n) = key})
                /\ Total(ret.val) = Len(tokens) - n + 1

NgramsCountWindowsWitness ==
    /\ Returned("create_ngrams")
    /\ call.args[2] = 2
    /\ Len(call.args[1]) = 4
    /\ ret.kind = "Ok"
    /\ \E key \in DOMAIN ret.val : ret.val[key] = 2
    /\ Cardinality(DOMAIN ret.val) = 2

InUnitInterval(x) == F32Le(F32Zero, x) /\ F32Le(x, F32One)

\* C7: the precision and the recall of every Score rouge_n returns lie in
\* [0.0, 1.0]: the overlap ngram_based_score computes exceeds neither total.
RatiosInUnitInterval ==
    /\ (Returned("rouge_n") /\ ret.kind = "Ok") =>
        InUnitInterval(ret.val.precision) /\ InUnitInterval(ret.val.recall)
    /\ (Returned("ngram_based_score") /\ ret.kind = "Ok") =>
        /\ InUnitInterval(ret.val.precision) /\ InUnitInterval(ret.val.recall)
        /\ Overlap(call.args[1], call.args[2]) <= Total(call.args[1])
        /\ Overlap(call.args[1], call.args[2]) <= Total(call.args[2])

RatiosInUnitIntervalWitness ==
    /\ Returned("rouge_n")
    /\ ret.kind = "Ok"
    /\ ret.val.precision \notin {F32Zero, F32One}
    /\ ret.val.recall \notin {F32Zero, F32One}
    /\ LET tokens == split_whitespace(call.args[1])
       IN  Cardinality(Windows(tokens, call.args[3])) < Len(tokens) - call.args[3] + 1

\* C8: for all u32 tp and fp with tp + fp > 0, precision(tp, fp) is
\* tp / (tp + fp) and lies in [0, 1], and so is recall(tp, fn): the addition
\* true_pos + false_pos does not overflow or wrap.
PrimitivesNeverOverflow ==
    (Returned("precision") \/ Returned("recall")) =>
        LET tp == call.args[1]
            fp == call.args[2]
            sum == LimbAddC(tp, fp, 0)
        IN  (tp # U32Zero \/ fp # U32Zero) =>
                /\ ~sum.overflow
                /\ ret = Val(F32Div(F32FromU32(tp), F32FromU32(sum.val)))
                /\ InUnitInterval(ret.val)

\* C9: for n >= 1 and fewer than n tokens, create_ngrams returns the empty
\* multiset: no underflow, no window visited, no slice out of range.
ShortTokensGiveEmptyMultiset ==
    Returned("create_ngrams") =>
        LET tokens == call.args[1]
            n == call.args[2]
        IN  (n >= 1 /\ Len(tokens) < n) => ret = Val(EmptyMap)

RECURSIVE InsertAll(_, _, _, _)
\* the multiset after the windows of the token sequence are inserted in the
\* order of their start positions in starts
InsertAll(tokens, n, starts, ngrams) ==
    IF starts = <<>> THEN ngrams
    ELSE InsertAll(tokens, n, Tail(starts),
                   entry_increment(ngrams,
                                   SubSeq(tokens, Head(starts) + 1, Head(starts) + n)))

\* C10: the Score is a function of the two multisets' contents only: every
\* iteration order of the two maps, and every order of insertion of the
\* n-grams, gives the result the call gave.
ScoreIndependentOfOrder ==
    /\ Returned("ngram_based_score") =>
        \A predicted_order \in Orders(DOMAIN call.args[1]),
           target_order \in Orders(DOMAIN call.args[2]) :
            ngram_based_score(call.args[1], call.args[2], predicted_order,
                              target_order, overflow_checks) = ret
    /\ Returned("rouge_n") =>
        \A input_order \in Orders(NgramKeys(call.args[1], call.args[3], overflow_checks)),
           reference_order \in Orders(NgramKeys(call.args[2], call.args[3], overflow_checks)) :
            rouge_n(call.args[1], call.args[2], call.args[3], input_order,
                    reference_order, overflow_checks) = ret
    /\ (Returned("create_ngrams") /\ ret.kind = "Ok" /\ call.args[2] >= 1) =>
        \A starts \in Orders(0..(Len(call.args[1]) - call.args[2])) :
            InsertAll(call.args[1], call.args[2], starts, EmptyMap) = ret.val

ScoreIndependentOfOrderWitness ==
    /\ Returned("ngram_based_score")
    /\ Cardinality(DOMAIN call.args[2]) = 3
    /\ \E j, k \in DOMAIN call.args[2] :
        /\ j \in DOMAIN call.args[1]
        /\ k \in DOMAIN call.args[1]
        /\ call.args[1][j] = 1 /\ call.args[2][j] = 2
        /\ call.args[1][k] = 2 /\ call.args[2][k] = 2
    /\ ret.kind = "Ok"
    /\ ret.val.recall \notin {F32Zero, F32One}

====
